---- MODULE Spec2Model ----
(***************************************************************************)
(* Pothole detector: the driving-session page (routes/+page.svelte, latest *)
(* revision) together with lib/utils/sensors.ts (SensorManager and the     *)
(* classifier functions) and the browser objects they register with.       *)
(*                                                                         *)
(* Encodings.  A nullable object (currentSession, currentLocation,         *)
(* lastLocation, currentAccelerometer) is a sequence of length at most 1:  *)
(* <<>> is null and <<r>> is the object r.  A nullable number (speed,      *)
(* endTime) is NullNum when null.  userConfirmed is "null", "true" or      *)
(* "false".  The clock counts seconds; Date.now() is now * 1000 ms.        *)
(* fixSinceStart is a history variable: a position was delivered since the *)
(* latest startSession that created a session.                             *)
(* ignored is a history variable too: the handler whose call in the latest *)
(* step returned before it changed anything ("utterance" for a spoken word *)
(* that no code receives; confirmPothole and markFalsePositive under one   *)
(* name), "none" otherwise; it is kept only for the                        *)
(* handlers in observed, a set fixed by the initial state.  sample is a    *)
(* motion sample under examination and verdict what the classifier        *)
(* functions returned for it (both null except in SpecClassify).           *)
(* Positions lie on one meridian on a grid whose step is 1000 m of arc, so *)
(* the haversine formula gives 1000 * |lat2 - lat1| metres exactly.        *)
(***************************************************************************)
EXTENDS Integers, Sequences, FiniteSets, TLC

VARIABLES
    sessionStatus, currentSession, permissionDetails,
    currentAccelerometer, currentLocation, currentSpeed,
    eventsCount, confirmedPotholes, falsePositives, totalDistance,
    lastLocation, sessionStartTime, sessionTimer, sessionDuration,
    startCoords, destinationCoords,
    accelerometerPermission, locationPermission, watchId,
    motionListeners, activeWatches, nextWatch, activeTimers, nextTimer,
    motionGranted, geolocationInNavigator, geoGranted,
    now, nextId, exported,
    fixSinceStart, observed, ignored,
    sample, verdict

page == <<sessionStatus, currentSession, permissionDetails,
          currentAccelerometer, currentLocation, currentSpeed,
          eventsCount, confirmedPotholes, falsePositives, totalDistance,
          lastLocation, sessionStartTime, sessionTimer, sessionDuration,
          startCoords, destinationCoords>>
manager == <<accelerometerPermission, locationPermission, watchId>>
browser == <<motionListeners, activeWatches, nextWatch, activeTimers,
             nextTimer, motionGranted, geolocationInNavigator, geoGranted>>
probe == <<sample, verdict>>
vars == <<page, manager, browser, now, nextId, exported, fixSinceStart,
          observed, ignored, probe>>

----------------------------------------------------------------------------
(* Bounds of the model *)
MaxTime == 2
MaxLat == 1
MaxWatches == 3
MaxDistance == 1
MaxIds == 3
MaxAxis == 26

(* Program constants *)
POTHOLE_THRESHOLD == 15
HighCut == 25
MediumCut == 20
MetresPerKm == 1000
MsPerSecond == 1000
VoiceWindowMs == 5000

Null == <<>>
NullNum == 0 - 1

\* an axis value that is NaN, and one that is null or undefined
NaN == 0 - 1000
Absent == 0 - 1001

Abs(n) == IF n < 0 THEN 0 - n ELSE n

----------------------------------------------------------------------------
(* Inputs the browser can deliver *)

\* accelerationIncludingGravity of a devicemotion event: at rest (gravity
\* only, magnitude 10), a low jolt (16) and a high jolt (26)
MotionInputs ==
    { [x |-> 0, y |-> 0, z |-> 10],
      [x |-> 0, y |-> 0, z |-> 16],
      [x |-> 0, y |-> 0, z |-> 26] }

\* accelerationIncludingGravity as any device can report it: each axis a
\* number of m/s^2 (the x axis of either sign), NaN, or null / undefined
AxisInputs == {NaN, Absent} \cup 0..MaxAxis

RawSamples ==
    { [x |-> a, y |-> b, z |-> c] :
        a \in AxisInputs \cup (0 - MaxAxis)..0, b \in AxisInputs,
        c \in AxisInputs }

\* positions a watch can report: grid latitude, with the speed unknown at
\* even latitudes and 10 m/s at odd ones
PositionInputs ==
    { [latitude |-> lat, longitude |-> 0,
       speed |-> IF lat % 2 = 0 THEN NullNum ELSE 10, accuracy |-> 5] :
      lat \in 0..MaxLat }

----------------------------------------------------------------------------
(* lib/utils/sensors.ts: pure functions *)

SumSq(reading) ==
    reading.x * reading.x + reading.y * reading.y + reading.z * reading.z

\* detectPothole with the threshold included
detectPothole_AtLeast(reading) ==
    SumSq(reading) >= POTHOLE_THRESHOLD * POTHOLE_THRESHOLD

\* calculateSeverity with the cut points included in the higher class
calculateSeverity_Inclusive(reading) ==
    IF SumSq(reading) >= HighCut * HighCut THEN "high"
    ELSE IF SumSq(reading) >= MediumCut * MediumCut THEN "medium"
    ELSE "low"

\* Math.sqrt(s) > t for integers s >= 0, t >= 0 is s > t * t
detectPothole(reading) ==
    SumSq(reading) > POTHOLE_THRESHOLD * POTHOLE_THRESHOLD

calculateSeverity(reading) ==
    IF SumSq(reading) > HighCut * HighCut THEN "high"
    ELSE IF SumSq(reading) > MediumCut * MediumCut THEN "medium"
    ELSE "low"

\* haversine distance in metres, for two points of the grid meridian
calculateDistance(lat1, lon1, lat2, lon2) ==
    MetresPerKm * Abs(lat2 - lat1)

DateNow == now * MsPerSecond

----------------------------------------------------------------------------
(* Initial state: the page's declarations and a fresh SensorManager, on a   *)
(* device whose answers to the permission prompts are fixed, and with the  *)
(* route inputs (start, destination) filled in or left empty.              *)

PageLoaded ==
    /\ sessionStatus = "idle"
    /\ currentSession = Null
    /\ permissionDetails = [accelerometer |-> FALSE, location |-> FALSE]
    /\ currentAccelerometer = Null
    /\ currentLocation = Null
    /\ currentSpeed = 0
    /\ eventsCount = 0
    /\ confirmedPotholes = 0
    /\ falsePositives = 0
    /\ totalDistance = 0
    /\ lastLocation = Null
    /\ sessionStartTime = 0
    /\ sessionTimer = 0
    /\ sessionDuration = 0
    /\ startCoords \in BOOLEAN
    /\ destinationCoords \in BOOLEAN
    /\ accelerometerPermission = FALSE
    /\ locationPermission = FALSE
    /\ watchId = NullNum
    /\ motionListeners = 0
    /\ activeWatches = {}
    /\ nextWatch = 1
    /\ activeTimers = {}
    /\ nextTimer = 1
    /\ geolocationInNavigator \in BOOLEAN
    /\ motionGranted \in BOOLEAN
    /\ geoGranted \in {g \in BOOLEAN : g => geolocationInNavigator}
    /\ now = 1
    /\ nextId = 1
    /\ exported = <<>>
    /\ fixSinceStart = FALSE

\* the page, recording the ignored calls of the handlers named in calls;
\* no sample is under examination
Observing(calls) ==
    /\ PageLoaded
    /\ observed = calls
    /\ ignored = "none"
    /\ sample = Null
    /\ verdict = Null

Init == Observing({})

\* the page on a device that grants everything, with one sample of
\* RawSamples under examination
InitClassify ==
    /\ PageLoaded
    /\ geolocationInNavigator /\ motionGranted /\ geoGranted
    /\ startCoords /\ destinationCoords
    /\ observed = {}
    /\ ignored = "none"
    /\ sample \in {<<raw>> : raw \in RawSamples}
    /\ verdict = Null

----------------------------------------------------------------------------
(* The reactive block of the page: whenever currentSession was assigned   *)
(* and is non-null, the three counters are recomputed from its events.    *)

CountConfirmed(events, v) ==
    Cardinality({i \in 1..Len(events) : events[i].userConfirmed = v})

\* a page without the reactive block: the counters are the stored ones
\* (as in the earlier revision of the page)
ReactiveCounters_Stored(cs, ec, cp, fp) ==
    [eventsCount |-> ec, confirmedPotholes |-> cp, falsePositives |-> fp]

ReactiveCounters(cs, ec, cp, fp) ==
    IF cs # Null
    THEN [eventsCount |-> Len(cs[1].events),
          confirmedPotholes |-> CountConfirmed(cs[1].events, "true"),
          falsePositives |-> CountConfirmed(cs[1].events, "false")]
    ELSE [eventsCount |-> ec, confirmedPotholes |-> cp, falsePositives |-> fp]

SetCounters(c) ==
    /\ eventsCount' = c.eventsCount
    /\ confirmedPotholes' = c.confirmedPotholes
    /\ falsePositives' = c.falsePositives

----------------------------------------------------------------------------
(* SensorManager *)

\* startLocationTracking: a new watch whose id overwrites this.watchId
startLocationTracking(perm, wid, watches, nw) ==
    IF ~perm \/ ~geolocationInNavigator
    THEN [watchId |-> wid, activeWatches |-> watches, nextWatch |-> nw]
    ELSE [watchId |-> nw, activeWatches |-> watches \cup {nw},
          nextWatch |-> nw + 1]

\* startAccelerometer: one more devicemotion listener bound to the callback
startAccelerometer(perm, listeners) ==
    IF ~perm THEN listeners ELSE listeners + 1

\* stopAllSensors: clears the watch this.watchId names; the listener passed
\* to removeEventListener is a new function, so no listener is removed
stopAllSensors(wid, watches, listeners) ==
    [watchId |-> NullNum,
     activeWatches |-> IF wid # NullNum THEN watches \ {wid} ELSE watches,
     motionListeners |-> listeners]

\* requestPermissions: the motion permission is the browser's answer; the
\* location permission is set whenever the geolocation API exists, whether
\* getCurrentPosition succeeded or failed, and is left alone otherwise
requestPermissions(locPerm) ==
    [accelerometer |-> motionGranted,
     location |-> IF geolocationInNavigator THEN TRUE ELSE locPerm]

\* handleMotion, the listener startAccelerometer registers: the reading it
\* hands to the callback (axis || 0, timestamp Date.now())
OrZero(v) == IF v = NaN \/ v = Absent \/ v = 0 THEN 0 ELSE v

handleMotion(acc) ==
    [x |-> OrZero(acc.x), y |-> OrZero(acc.y), z |-> OrZero(acc.z),
     timestamp |-> DateNow]

\* watchPosition's success callback: the LocationData handed to the callback
toLocationData(pos) ==
    [latitude |-> pos.latitude, longitude |-> pos.longitude,
     speed |-> pos.speed, accuracy |-> pos.accuracy, timestamp |-> DateNow]

----------------------------------------------------------------------------
(* The page: handlers as functions of the state they read *)

NewSession(id, start) ==
    [id |-> id, startTime |-> start, endTime |-> NullNum, events |-> <<>>,
     totalDistance |-> 0, averageSpeed |-> [num |-> 0, den |-> 1]]

\* an event stamped with the time of the location fix, not of the reading
NewEvent_StampedByLocation(id, reading, loc, severity) ==
    [id |-> id, timestamp |-> loc[1].timestamp, accelerometer |-> reading,
     location |-> loc, speed |-> loc[1].speed, label |-> "pothole_detected",
     userConfirmed |-> "null", severity |-> severity]

\* loc is currentLocation (a nullable object) as the handler read it
NewEvent(id, reading, loc, severity) ==
    [id |-> id, timestamp |-> reading.timestamp, accelerometer |-> reading,
     location |-> loc, speed |-> loc[1].speed, label |-> "pothole_detected",
     userConfirmed |-> "null", severity |-> severity]

\* handleAccelerometerData without the test of currentLocation
handleAccelerometerData_NoLocationTest(st, loc, reading) ==
    IF detectPothole(reading) /\ st.session # Null
    THEN LET severity == calculateSeverity(reading)
         IN  IF severity = "medium" \/ severity = "high"
             THEN [session |->
                     <<[st.session[1] EXCEPT !.events =
                          Append(@, [id |-> st.nextId,
                                     timestamp |-> reading.timestamp,
                                     accelerometer |-> reading,
                                     location |-> loc,
                                     speed |-> IF loc # Null
                                               THEN loc[1].speed
                                               ELSE NullNum,
                                     label |-> "pothole_detected",
                                     userConfirmed |-> "null",
                                     severity |-> severity])]>>,
                   nextId |-> st.nextId + 1]
             ELSE st
    ELSE st

\* handleAccelerometerData without the severity filter (every candidate is
\* recorded, as the earlier revision of the page did)
handleAccelerometerData_NoSeverityFilter(st, loc, reading) ==
    IF detectPothole(reading) /\ loc # Null /\ st.session # Null
    THEN [session |->
            <<[st.session[1] EXCEPT !.events =
                 Append(@, NewEvent(st.nextId, reading, loc,
                                    calculateSeverity(reading)))]>>,
          nextId |-> st.nextId + 1]
    ELSE st

\* one call of handleAccelerometerData; st = [session, nextId]
handleAccelerometerData(st, loc, reading) ==
    IF detectPothole(reading) /\ loc # Null /\ st.session # Null
    THEN LET severity == calculateSeverity(reading)
         IN  IF severity = "medium" \/ severity = "high"
             THEN [session |->
                     <<[st.session[1] EXCEPT !.events =
                          Append(@, NewEvent(st.nextId, reading, loc,
                                             severity))]>>,
                   nextId |-> st.nextId + 1]
             ELSE st
    ELSE st

\* a devicemotion event is dispatched to every registered listener in turn
RECURSIVE Dispatch(_, _, _, _)
Dispatch(st, loc, reading, listeners) ==
    IF listeners = 0 THEN st
    ELSE Dispatch(handleAccelerometerData(st, loc, reading), loc, reading,
                  listeners - 1)

\* Array.prototype.find: the index of the first event with that id, or 0
FindEvent(events, eventId) ==
    IF \E i \in 1..Len(events) : events[i].id = eventId
    THEN CHOOSE i \in 1..Len(events) :
            /\ events[i].id = eventId
            /\ \A j \in 1..(i - 1) : events[j].id # eventId
    ELSE 0

\* a confirmation that writes userConfirmed and leaves the label
SetConfirmation_KeepsLabel(session, eventId, value, label) ==
    LET i == FindEvent(session.events, eventId)
    IN  IF i = 0 THEN session
        ELSE [session EXCEPT !.events[i].userConfirmed = value]

\* a confirmation that resolves every event of the session
SetConfirmation_ResolvesAll(session, eventId, value, label) ==
    LET i == FindEvent(session.events, eventId)
    IN  IF i = 0 THEN session
        ELSE [session EXCEPT !.events =
                [k \in 1..Len(session.events) |->
                    [session.events[k] EXCEPT !.userConfirmed = value,
                                              !.label = label]]]

\* a confirmation that withdraws itself when it is given a second time
SetConfirmation_Toggle(session, eventId, value, label) ==
    LET i == FindEvent(session.events, eventId)
    IN  IF i = 0 THEN session
        ELSE IF session.events[i].userConfirmed = value
             THEN [session EXCEPT !.events[i].userConfirmed = "null",
                                  !.events[i].label = "pothole_detected"]
             ELSE [session EXCEPT !.events[i].userConfirmed = value,
                                  !.events[i].label = label]

\* a confirmation that moves the resolved event to the front of the list
SetConfirmation_MoveToFront(session, eventId, value, label) ==
    LET i == FindEvent(session.events, eventId)
    IN  IF i = 0 THEN session
        ELSE [session EXCEPT !.events =
                <<[session.events[i] EXCEPT !.userConfirmed = value,
                                            !.label = label]>>
                \o SubSeq(session.events, 1, i - 1)
                \o SubSeq(session.events, i + 1, Len(session.events))]

\* the body of confirmPothole / markFalsePositive on a non-null session
SetConfirmation(session, eventId, value, label) ==
    LET i == FindEvent(session.events, eventId)
    IN  IF i = 0 THEN session
        ELSE [session EXCEPT !.events[i].userConfirmed = value,
                             !.events[i].label = label]

\* Math.round(speed * 3.6)
ToKmh(speed) == (speed * 36 + 5) \div 10

\* a stopSession that exports the session before its statistics are set
Finalize_Unfinished(session, dist, end) == session

\* a stopSession whose averageSpeed lacks the factor 60 (km per minute)
Finalize_PerMinute(session, dist, end) ==
    LET durationMs == end - session.startTime
    IN  [session EXCEPT
            !.endTime = end,
            !.averageSpeed =
                IF durationMs > 0
                THEN [num |-> dist * 60 * MsPerSecond, den |-> durationMs]
                ELSE [num |-> 0, den |-> 1],
            !.totalDistance = dist]

\* stopSession's statistics: endTime, averageSpeed (km/h, as a fraction
\* totalDistance / duration * 60 with duration in minutes) and totalDistance
Finalize(session, dist, end) ==
    LET durationMs == end - session.startTime
    IN  [session EXCEPT
            !.endTime = end,
            !.averageSpeed =
                IF durationMs > 0
                THEN [num |-> dist * 60 * 60 * MsPerSecond, den |-> durationMs]
                ELSE [num |-> 0, den |-> 1],
            !.totalDistance = dist]

----------------------------------------------------------------------------
(* Actions: one per handler of the page and per browser callback *)

\* what the history variable ignored becomes after a call of a handler
\* that returned early: the handler's name if it is an observed one
Observe(call) == IF call \in observed THEN call ELSE "none"

\* the step ran a handler's body (or a callback the program registered)
Handled ==
    /\ ignored' = "none"
    /\ UNCHANGED <<observed, probe>>

\* the step is a call that returned before it changed anything
Ignored(call) ==
    /\ ignored' = Observe(call)
    /\ UNCHANGED <<page, manager, browser, now, nextId, exported,
                   fixSinceStart, observed, probe>>

\* enableLocation: SensorManager.requestPermissions, then permissionDetails,
\* then the location watch when location is marked available
enableLocation ==
    LET perms == requestPermissions(locationPermission)
        track == IF perms.location
                 THEN startLocationTracking(perms.location, watchId,
                                            activeWatches, nextWatch)
                 ELSE [watchId |-> watchId, activeWatches |-> activeWatches,
                       nextWatch |-> nextWatch]
    IN  /\ track.nextWatch <= MaxWatches + 1
        /\ accelerometerPermission' = perms.accelerometer
        /\ locationPermission' = perms.location
        /\ permissionDetails' = perms
        /\ watchId' = track.watchId
        /\ activeWatches' = track.activeWatches
        /\ nextWatch' = track.nextWatch
        /\ UNCHANGED <<sessionStatus, currentSession, currentAccelerometer,
                       currentLocation, currentSpeed, eventsCount,
                       confirmedPotholes, falsePositives, totalDistance,
                       lastLocation, sessionStartTime, sessionTimer,
                       sessionDuration, startCoords, destinationCoords,
                       motionListeners, activeTimers, nextTimer,
                       motionGranted, geolocationInNavigator, geoGranted,
                       now, nextId, exported,
                       fixSinceStart>>
        /\ Handled

selectStartLocation ==
    \E ok \in BOOLEAN :
        /\ startCoords' = ok
        /\ UNCHANGED <<sessionStatus, currentSession, permissionDetails,
                       currentAccelerometer, currentLocation, currentSpeed,
                       eventsCount, confirmedPotholes, falsePositives,
                       totalDistance, lastLocation, sessionStartTime,
                       sessionTimer, sessionDuration, destinationCoords,
                       manager, browser, now, nextId, exported,
                       fixSinceStart>>
        /\ Handled

selectDestination ==
    \E ok \in BOOLEAN :
        /\ destinationCoords' = ok
        /\ UNCHANGED <<sessionStatus, currentSession, permissionDetails,
                       currentAccelerometer, currentLocation, currentSpeed,
                       eventsCount, confirmedPotholes, falsePositives,
                       totalDistance, lastLocation, sessionStartTime,
                       sessionTimer, sessionDuration, startCoords,
                       manager, browser, now, nextId, exported,
                       fixSinceStart>>
        /\ Handled

\* a startSession without the test of the start and destination coordinates
StartRefused_NoRouteTest ==
    \/ ~permissionDetails.accelerometer
    \/ ~permissionDetails.location

\* the three refusals at the top of startSession
StartRefused ==
    \/ ~permissionDetails.accelerometer
    \/ ~permissionDetails.location
    \/ ~startCoords
    \/ ~destinationCoords

startSession ==
    /\ IF StartRefused
       THEN Ignored("startSession")
       ELSE LET track == startLocationTracking(locationPermission, watchId,
                                               activeWatches, nextWatch)
                session == <<NewSession(nextId, DateNow)>>
            IN  /\ track.nextWatch <= MaxWatches + 1
                /\ nextId <= MaxIds
                /\ sessionStatus' = "active"
                /\ sessionStartTime' = DateNow
                /\ currentSession' = session
                /\ nextId' = nextId + 1
                /\ totalDistance' = 0
                /\ SetCounters(ReactiveCounters(session, 0, 0, 0))
                /\ sessionTimer' = nextTimer
                /\ activeTimers' = activeTimers \cup {nextTimer}
                /\ nextTimer' = nextTimer + 1
                /\ motionListeners' =
                       startAccelerometer(accelerometerPermission,
                                          motionListeners)
                /\ watchId' = track.watchId
                /\ activeWatches' = track.activeWatches
                /\ nextWatch' = track.nextWatch
                /\ UNCHANGED <<permissionDetails, currentAccelerometer,
                               currentLocation, currentSpeed, lastLocation,
                               sessionDuration, startCoords,
                               destinationCoords, accelerometerPermission,
                               locationPermission, motionGranted,
                               geolocationInNavigator, geoGranted, now,
                               exported>>
                /\ fixSinceStart' = FALSE
                /\ Handled

\* a stopSession that stops the sensors before it tests currentSession
stopSession_StopsSensorsFirst ==
    LET stopped == stopAllSensors(watchId, activeWatches, motionListeners)
    IN  /\ watchId' = stopped.watchId
        /\ activeWatches' = stopped.activeWatches
        /\ motionListeners' = stopped.motionListeners
        /\ IF currentSession = Null
           THEN /\ ignored' = Observe("stopSession")
                /\ UNCHANGED <<page, accelerometerPermission,
                               locationPermission, nextWatch, activeTimers,
                               nextTimer, motionGranted,
                               geolocationInNavigator, geoGranted, now,
                               nextId, exported, fixSinceStart, observed,
                               probe>>
           ELSE /\ sessionStatus' = "idle"
                /\ activeTimers' = IF sessionTimer # 0
                                   THEN activeTimers \ {sessionTimer}
                                   ELSE activeTimers
                /\ exported' = Append(exported,
                                      Finalize(currentSession[1],
                                               totalDistance, DateNow))
                /\ currentSession' = Null
                /\ currentAccelerometer' = Null
                /\ currentLocation' = Null
                /\ currentSpeed' = 0
                /\ sessionDuration' = 0
                /\ SetCounters(ReactiveCounters(Null, eventsCount,
                                                confirmedPotholes,
                                                falsePositives))
                /\ UNCHANGED <<permissionDetails, totalDistance,
                               lastLocation, sessionStartTime, sessionTimer,
                               startCoords, destinationCoords,
                               accelerometerPermission, locationPermission,
                               nextWatch, nextTimer, motionGranted,
                               geolocationInNavigator, geoGranted, now,
                               nextId, fixSinceStart>>
                /\ Handled

\* a stopSession that does not set sessionStatus
stopSession_StaysActive ==
    /\ IF currentSession = Null
       THEN Ignored("stopSession")
       ELSE LET stopped == stopAllSensors(watchId, activeWatches,
                                          motionListeners)
            IN  /\ sessionStatus' = sessionStatus
                /\ watchId' = stopped.watchId
                /\ activeWatches' = stopped.activeWatches
                /\ motionListeners' = stopped.motionListeners
                /\ activeTimers' = IF sessionTimer # 0
                                   THEN activeTimers \ {sessionTimer}
                                   ELSE activeTimers
                /\ exported' = Append(exported,
                                      Finalize(currentSession[1],
                                               totalDistance, DateNow))
                /\ currentSession' = Null
                /\ currentAccelerometer' = Null
                /\ currentLocation' = Null
                /\ currentSpeed' = 0
                /\ sessionDuration' = 0
                /\ SetCounters(ReactiveCounters(Null, eventsCount,
                                                confirmedPotholes,
                                                falsePositives))
                /\ UNCHANGED <<permissionDetails, totalDistance,
                               lastLocation, sessionStartTime, sessionTimer,
                               startCoords, destinationCoords,
                               accelerometerPermission, locationPermission,
                               nextWatch, nextTimer, motionGranted,
                               geolocationInNavigator, geoGranted, now,
                               nextId, fixSinceStart>>
                /\ Handled

stopSession ==
    /\ IF currentSession = Null
       THEN Ignored("stopSession")
       ELSE LET stopped == stopAllSensors(watchId, activeWatches,
                                          motionListeners)
            IN  /\ sessionStatus' = "idle"
                /\ watchId' = stopped.watchId
                /\ activeWatches' = stopped.activeWatches
                /\ motionListeners' = stopped.motionListeners
                /\ activeTimers' = IF sessionTimer # 0
                                   THEN activeTimers \ {sessionTimer}
                                   ELSE activeTimers
                /\ exported' = Append(exported,
                                      Finalize(currentSession[1],
                                               totalDistance, DateNow))
                /\ currentSession' = Null
                /\ currentAccelerometer' = Null
                /\ currentLocation' = Null
                /\ currentSpeed' = 0
                /\ sessionDuration' = 0
                /\ SetCounters(ReactiveCounters(Null, eventsCount,
                                                confirmedPotholes,
                                                falsePositives))
                /\ UNCHANGED <<permissionDetails, totalDistance,
                               lastLocation, sessionStartTime, sessionTimer,
                               startCoords, destinationCoords,
                               accelerometerPermission, locationPermission,
                               nextWatch, nextTimer, motionGranted,
                               geolocationInNavigator, geoGranted, now,
                               nextId, fixSinceStart>>
                /\ Handled

\* a devicemotion event with a non-null accelerationIncludingGravity: every
\* registered listener builds its reading and calls handleAccelerometerData
deviceMotion ==
    \E acc \in MotionInputs :
        LET reading == handleMotion(acc)
            st == Dispatch([session |-> currentSession, nextId |-> nextId],
                           currentLocation, reading, motionListeners)
        IN  /\ motionListeners > 0
            /\ st.nextId <= MaxIds + 1
            /\ currentAccelerometer' = <<reading>>
            /\ currentSession' = st.session
            /\ nextId' = st.nextId
            /\ SetCounters(IF st.session # currentSession
                           THEN ReactiveCounters(st.session, eventsCount,
                                                 confirmedPotholes,
                                                 falsePositives)
                           ELSE [eventsCount |-> eventsCount,
                                 confirmedPotholes |-> confirmedPotholes,
                                 falsePositives |-> falsePositives])
            /\ UNCHANGED <<sessionStatus, permissionDetails, currentLocation,
                           currentSpeed, totalDistance, lastLocation,
                           sessionStartTime, sessionTimer, sessionDuration,
                           startCoords, destinationCoords, manager, browser,
                           now, exported,
                       fixSinceStart>>
            /\ Handled

\* handleLocationData on the page state it reads and writes
handleLocationData(session, lastLoc, dist, location) ==
    IF lastLoc # Null /\ session # Null
    THEN LET distance == calculateDistance(lastLoc[1].latitude,
                                           lastLoc[1].longitude,
                                           location.latitude,
                                           location.longitude)
             total == dist + distance \div MetresPerKm
         IN  [totalDistance |-> total,
              session |-> <<[session[1] EXCEPT !.totalDistance = total]>>,
              lastLocation |-> <<location>>]
    ELSE [totalDistance |-> dist, session |-> session,
          lastLocation |-> <<location>>]

\* a position delivered by one of the active watches
positionUpdate ==
    \E pos \in PositionInputs :
        LET location == toLocationData(pos)
            r == handleLocationData(currentSession, lastLocation,
                                    totalDistance, location)
        IN  /\ activeWatches # {}
            /\ geoGranted
            /\ r.totalDistance <= MaxDistance
            /\ currentLocation' = <<location>>
            /\ currentSpeed' = IF location.speed # NullNum
                               THEN ToKmh(location.speed)
                               ELSE currentSpeed
            /\ totalDistance' = r.totalDistance
            /\ currentSession' = r.session
            /\ lastLocation' = r.lastLocation
            /\ SetCounters(IF lastLocation # Null
                           THEN ReactiveCounters(r.session, eventsCount,
                                                 confirmedPotholes,
                                                 falsePositives)
                           ELSE [eventsCount |-> eventsCount,
                                 confirmedPotholes |-> confirmedPotholes,
                                 falsePositives |-> falsePositives])
            /\ UNCHANGED <<sessionStatus, permissionDetails,
                           currentAccelerometer, sessionStartTime,
                           sessionTimer, sessionDuration, startCoords,
                           destinationCoords, manager, browser, now, nextId,
                           exported>>
            /\ fixSinceStart' = TRUE
            /\ Handled

\* the three counters of the page
Counters ==
    [eventsCount |-> eventsCount, confirmedPotholes |-> confirmedPotholes,
     falsePositives |-> falsePositives]

\* a confirmPothole that counts a confirmation although it found no event
confirmPotholeOn_CountsUnfound(cs, c, eventId) ==
    IF cs = Null
    THEN [session |-> cs, counters |-> c, found |-> FALSE]
    ELSE LET found == FindEvent(cs[1].events, eventId) # 0
             session == <<SetConfirmation(cs[1], eventId, "true",
                                          "pothole_confirmed")>>
         IN  [session |-> session,
              counters |-> IF found
                           THEN ReactiveCounters(session, c.eventsCount,
                                                 c.confirmedPotholes + 1,
                                                 c.falsePositives)
                           ELSE [c EXCEPT !.confirmedPotholes = @ + 1],
              found |-> found]

\* confirmPothole(eventId) on the page whose session is cs and whose
\* counters are c: what it leaves in currentSession and in the counters
\* (the increment, then the reactive block), and whether the event was found
confirmPotholeOn(cs, c, eventId) ==
    IF cs = Null
    THEN [session |-> cs, counters |-> c, found |-> FALSE]
    ELSE LET found == FindEvent(cs[1].events, eventId) # 0
             session == <<SetConfirmation(cs[1], eventId, "true",
                                          "pothole_confirmed")>>
         IN  [session |-> session,
              counters |-> IF found
                           THEN ReactiveCounters(session, c.eventsCount,
                                                 c.confirmedPotholes + 1,
                                                 c.falsePositives)
                           ELSE c,
              found |-> found]

\* markFalsePositive(eventId), likewise
markFalsePositiveOn(cs, c, eventId) ==
    IF cs = Null
    THEN [session |-> cs, counters |-> c, found |-> FALSE]
    ELSE LET found == FindEvent(cs[1].events, eventId) # 0
             session == <<SetConfirmation(cs[1], eventId, "false",
                                          "false_positive")>>
         IN  [session |-> session,
              counters |-> IF found
                           THEN ReactiveCounters(session, c.eventsCount,
                                                 c.confirmedPotholes,
                                                 c.falsePositives + 1)
                           ELSE c,
              found |-> found]

\* a call of confirmPothole or markFalsePositive that found its event is
\* handled; one that returned early or found no event is recorded as
\* ignored (the two handlers under one name, as they are the same code but
\* for the value they write)
confirmPothole ==
    \E eventId \in 1..MaxIds :
        LET after == confirmPotholeOn(currentSession, Counters, eventId)
        IN  /\ currentSession' = after.session
            /\ SetCounters(after.counters)
            /\ ignored' = Observe(IF after.found THEN "none"
                                  ELSE "confirmPothole|markFalsePositive")
            /\ UNCHANGED <<sessionStatus, permissionDetails,
                           currentAccelerometer, currentLocation,
                           currentSpeed, totalDistance, lastLocation,
                           sessionStartTime, sessionTimer, sessionDuration,
                           startCoords, destinationCoords, manager, browser,
                           now, nextId, exported, fixSinceStart, observed,
                           probe>>

markFalsePositive ==
    \E eventId \in 1..MaxIds :
        LET after == markFalsePositiveOn(currentSession, Counters, eventId)
        IN  /\ currentSession' = after.session
            /\ SetCounters(after.counters)
            /\ ignored' = Observe(IF after.found THEN "none"
                                  ELSE "confirmPothole|markFalsePositive")
            /\ UNCHANGED <<sessionStatus, permissionDetails,
                           currentAccelerometer, currentLocation,
                           currentSpeed, totalDistance, lastLocation,
                           sessionStartTime, sessionTimer, sessionDuration,
                           startCoords, destinationCoords, manager, browser,
                           now, nextId, exported, fixSinceStart, observed,
                           probe>>

\* the interval timer fires: updateSessionTimer (elapsed whole seconds; the
\* HH:MM:SS text is a function of that number)
updateSessionTimer ==
    /\ activeTimers # {}
    /\ sessionDuration' = IF sessionStartTime > 0
                          THEN (DateNow - sessionStartTime) \div MsPerSecond
                          ELSE sessionDuration
    /\ UNCHANGED <<sessionStatus, currentSession, permissionDetails,
                   currentAccelerometer, currentLocation, currentSpeed,
                   eventsCount, confirmedPotholes, falsePositives,
                   totalDistance, lastLocation, sessionStartTime,
                   sessionTimer, startCoords, destinationCoords, manager,
                   browser, now, nextId, exported,
                       fixSinceStart>>
    /\ Handled

\* the sample under examination goes through handleMotion, the two
\* classifier functions, and handleAccelerometerData on a new session with
\* a known location; verdict keeps what they returned
classify ==
    /\ sample # Null
    /\ verdict = Null
    /\ LET reading == handleMotion(sample[1])
           fix == CHOOSE pos \in PositionInputs : pos.latitude = 0
           st == handleAccelerometerData(
                     [session |-> <<NewSession(1, DateNow)>>, nextId |-> 2],
                     <<toLocationData(fix)>>, reading)
       IN  verdict' = <<[reading |-> reading,
                         candidate |-> detectPothole(reading),
                         severity |-> calculateSeverity(reading),
                         events |-> st.session[1].events]>>
    /\ UNCHANGED <<page, manager, browser, now, nextId, exported,
                   fixSinceStart, observed, ignored, sample>>

\* the user says "pothole": the page never calls startSpeechRecognition, so
\* no recognition is running and no callback of the program receives the
\* utterance
utterance ==
    /\ ignored' = Observe("utterance")
    /\ UNCHANGED <<page, manager, browser, now, nextId, exported,
                   fixSinceStart, observed, probe>>

\* one second passes
Tick ==
    /\ now < MaxTime
    /\ now' = now + 1
    /\ UNCHANGED <<page, manager, browser, nextId, exported,
                       fixSinceStart>>
    /\ Handled

Next ==
    \/ enableLocation
    \/ startSession
    \/ stopSession
    \/ deviceMotion
    \/ positionUpdate
    \/ confirmPothole
    \/ markFalsePositive
    \/ updateSessionTimer

\* every handler and callback, with the clock standing still
Spec == Init /\ [][Next]_vars

\* the same with the clock running
NextClock == Next \/ Tick

SpecClock == Init /\ [][NextClock]_vars

\* the same with the route inputs edited during the run
NextRoute == Next \/ selectStartLocation \/ selectDestination

SpecRoute == Init /\ [][NextRoute]_vars

\* the classifier functions applied to every sample of RawSamples
NextClassify == classify

SpecClassify == InitClassify /\ [][NextClassify]_vars

\* every handler and callback, with the early returns of stopSession
\* recorded
InitStopCalls == Observing({"stopSession"})

SpecStopCalls == InitStopCalls /\ [][Next]_vars

\* the clock running and the user speaking, the utterances recorded
InitVoice == Observing({"utterance"})

NextVoice == NextClock \/ utterance

SpecVoice == InitVoice /\ [][NextVoice]_vars

\* the same with the early returns of startSession recorded
InitStartCalls == Observing({"startSession"})

SpecStartCalls == InitStartCalls /\ [][Next]_vars

\* the same with the ignored calls of confirmPothole and markFalsePositive
\* recorded
InitResolveCalls == Observing({"confirmPothole|markFalsePositive"})

SpecResolveCalls == InitResolveCalls /\ [][Next]_vars

----------------------------------------------------------------------------
(* Properties *)

Events == IF currentSession = Null THEN <<>> ELSE currentSession[1].events

\* the same session object before and after a step
SameSession ==
    /\ currentSession # Null
    /\ currentSession' # Null
    /\ currentSession'[1].id = currentSession[1].id

\* C1: startSession called while a session is active is a no-op: the session
\* (id, startTime, events, totalDistance) is as before and no timer and no
\* sensor subscription is added.
C1_StartWhileActiveIsNoOp ==
    [][(sessionStatus = "active" /\ startSession)
         => /\ currentSession' = currentSession
            /\ totalDistance' = totalDistance
            /\ activeTimers' = activeTimers
            /\ motionListeners' = motionListeners
            /\ activeWatches' = activeWatches]_vars

\* C2: confirmation is one-shot: an event of the session that is confirmed
\* or rejected keeps that confirmation in every later state of the session.
C2_ConfirmationIsOneShot ==
    [][SameSession
         => \A i \in 1..Len(currentSession[1].events) :
              currentSession[1].events[i].userConfirmed # "null"
                => /\ i <= Len(currentSession'[1].events)
                   /\ currentSession'[1].events[i].userConfirmed
                        = currentSession[1].events[i].userConfirmed]_vars

\* C3: the session has events only if a position was delivered since the
\* startSession that created it.
C3_EventOnlyAfterFixInSession ==
    Events # <<>> => fixSinceStart

C5_FirstFixAddsNoDistance ==
    [][(currentSession # Null /\ ~fixSinceStart /\ positionUpdate)
         => totalDistance' = totalDistance]_vars

\* C6: after stopSession ends a session no devicemotion listener calling
\* the page is registered.
C6_NoMotionListenerAfterEnd ==
    [][(currentSession # Null /\ stopSession) => motionListeners' = 0]_vars

\* C7: after stopSession ends a session no location watch is active.
C7_NoLocationWatchAfterEnd ==
    [][(currentSession # Null /\ stopSession) => activeWatches' = {}]_vars

Cleared ==
    /\ currentSession = Null
    /\ currentAccelerometer = Null
    /\ currentLocation = Null
    /\ lastLocation = Null
    /\ totalDistance = 0
    /\ sessionStartTime = 0
    /\ eventsCount = 0
    /\ confirmedPotholes = 0
    /\ falsePositives = 0

\* C8: after stopSession ends a session all session, event and sample state
\* is back at its initial value, and it stays so while the page is idle.
C8_StateDiscardedAfterEnd ==
    [][/\ (currentSession # Null /\ stopSession) => Cleared'
       /\ (sessionStatus = "idle" /\ exported # <<>> /\ Cleared
             /\ sessionStatus' = "idle") => Cleared']_vars

\* a reading of magnitude in (15, 20]
LowCandidate(reading) ==
    /\ SumSq(reading) > POTHOLE_THRESHOLD * POTHOLE_THRESHOLD
    /\ SumSq(reading) <= MediumCut * MediumCut

\* C9: every event of the session has severity medium or high, and a motion
\* event of magnitude in (15, 20] leaves the events as they are.
C9_OnlyMediumOrHighLogged ==
    [][/\ \A i \in 1..Len(Events') :
            Events'[i].severity \in {"medium", "high"}
       /\ (/\ currentAccelerometer' # Null
           /\ LowCandidate(currentAccelerometer'[1])
           /\ deviceMotion)
            => Events' = Events]_vars

\* C9 witness: a low jolt is the current reading of an active session whose
\* current location was delivered before the session started (so it was
\* known when the jolt came), and there is no event
C9_Witness ==
    /\ sessionStatus = "active"
    /\ nextTimer = 2
    /\ exported = <<>>
    /\ currentLocation # Null
    /\ ~fixSinceStart
    /\ currentAccelerometer # Null
    /\ LowCandidate(currentAccelerometer[1])
    /\ Events = <<>>

SameButConfirmation(e, f) ==
    /\ e.id = f.id
    /\ e.timestamp = f.timestamp
    /\ e.accelerometer = f.accelerometer
    /\ e.location = f.location
    /\ e.speed = f.speed
    /\ e.severity = f.severity

\* C10: within one session the events before a step are a prefix of the
\* events after it, up to userConfirmed and label.
C10_EventsAppendOnly ==
    [][SameSession
         => /\ Len(currentSession[1].events) <= Len(currentSession'[1].events)
            /\ \A i \in 1..Len(currentSession[1].events) :
                 SameButConfirmation(currentSession[1].events[i],
                                     currentSession'[1].events[i])]_vars

\* C10 witness: a session with two events, the second of them resolved
C10_Witness ==
    /\ Len(Events) = 2
    /\ Events[2].userConfirmed # "null"
    /\ Events[1].id < Events[2].id

\* C11: while a session exists the three counters the page shows equal the
\* counts derived from its events: eventsCount is the number of events,
\* confirmedPotholes the number with userConfirmed true, falsePositives the
\* number with userConfirmed false.
C11_CountersAreDerived ==
    currentSession # Null
      => /\ eventsCount = Len(Events)
         /\ confirmedPotholes = CountConfirmed(Events, "true")
         /\ falsePositives = CountConfirmed(Events, "false")

\* C11 witness: a session with a confirmed event and a rejected event, after
\* a detection, a confirm and a reject each raised a counter
C11_Witness ==
    /\ Len(Events) = 2
    /\ Events[1].userConfirmed = "true"
    /\ Events[2].userConfirmed = "false"
    /\ eventsCount = 2
    /\ confirmedPotholes = 1
    /\ falsePositives = 1

\* C12: stopSession called while no session is active changes nothing: the
\* page state, the SensorManager, the listeners, watches and timers of the
\* browser, the clock and the exported records are as before.
C12_EndWhileIdleIsNoOp ==
    [][(sessionStatus # "active" /\ stopSession)
         => UNCHANGED <<page, manager, browser, now, nextId, exported>>]_vars

\* C12 witness: stopSession has just returned early on an idle page whose
\* location watch (started by enableLocation) is still active, after a
\* session was ended and exported
C12_Witness ==
    /\ ignored = "stopSession"
    /\ sessionStatus = "idle"
    /\ currentSession = Null
    /\ activeWatches # {}
    /\ Len(exported) = 1

MsPerHour == 60 * 60 * MsPerSecond

\* the record is the session as stopSession finalizes it: same id, start
\* and events, endTime set and not before the start, totalDistance the
\* page's total (km), averageSpeed that distance over the duration (km/h)
FinalizedFrom(rec, session, dist) ==
    /\ rec.id = session.id
    /\ rec.startTime = session.startTime
    /\ rec.events = session.events
    /\ rec.endTime # NullNum
    /\ rec.endTime >= rec.startTime
    /\ rec.totalDistance = dist
    /\ IF rec.endTime > rec.startTime
       THEN /\ rec.averageSpeed.num = dist * MsPerHour
            /\ rec.averageSpeed.den = rec.endTime - rec.startTime
       ELSE rec.averageSpeed.num = 0

\* C13: a stopSession that ends a session hands exactly one record to
\* exportSessionData, the finalized session with all its events in order,
\* and leaves currentSession null; no other step exports anything.
C13_ExportOncePerEnd ==
    [][IF currentSession # Null /\ stopSession
       THEN /\ Len(exported') = Len(exported) + 1
            /\ SubSeq(exported', 1, Len(exported)) = exported
            /\ FinalizedFrom(exported'[Len(exported')], currentSession[1],
                             totalDistance)
            /\ currentSession' = Null
       ELSE exported' = exported]_vars

\* C13 witness: one session was exported; it lasted a second, covered a
\* kilometre and holds a confirmed event, and the page has no session
C13_Witness ==
    /\ Len(exported) = 1
    /\ currentSession = Null
    /\ exported[1].endTime > exported[1].startTime
    /\ exported[1].totalDistance = 1
    /\ exported[1].averageSpeed.num > 0
    /\ Len(exported[1].events) = 1
    /\ exported[1].events[1].userConfirmed = "true"

\* e is a snapshot of the motion reading and of the location fix loc
Snapshot(e, reading, loc) ==
    /\ e.userConfirmed = "null"
    /\ e.label = "pothole_detected"
    /\ e.location = loc
    /\ loc # Null
    /\ e.speed = loc[1].speed
    /\ e.accelerometer = reading
    /\ e.timestamp = reading.timestamp
    /\ e.severity = calculateSeverity(reading)

\* C14: every event a step appends to the session is pending with label
\* pothole_detected, carries the position delivered last (lastLocation is
\* always the latest delivery) and its speed, the reading of the motion
\* event that triggered it with that reading's timestamp, and the severity
\* calculateSeverity gives that reading.
C14_EventIsSnapshot ==
    [][(SameSession /\ Len(Events') > Len(Events))
         => /\ currentAccelerometer' # Null
            /\ currentAccelerometer'[1].timestamp = DateNow
            /\ \A i \in (Len(Events) + 1)..Len(Events') :
                 Snapshot(Events'[i], currentAccelerometer'[1],
                          lastLocation)]_vars

\* C14 witness: a pending event whose position was delivered a second
\* before the motion event that triggered it, at a latitude other than the
\* first one delivered (the streams interleaved)
C14_Witness ==
    /\ Len(Events) = 1
    /\ Events[1].userConfirmed = "null"
    /\ Events[1].location[1].timestamp < Events[1].timestamp
    /\ Events[1].location[1].latitude = 1
    /\ Events[1].speed = 10
    /\ Events[1].severity = "high"
    /\ totalDistance = 1

\* the square of the magnitude sqrt(x^2 + y^2 + z^2) of the classified
\* reading; magnitude > t is MagnitudeSq > t * t for t >= 0
MagnitudeSq ==
    verdict[1].reading.x * verdict[1].reading.x
      + verdict[1].reading.y * verdict[1].reading.y
      + verdict[1].reading.z * verdict[1].reading.z

\* C15: detectPothole is true exactly when the magnitude of the reading is
\* strictly greater than 15 (15 * 15 = 225): false at 15 and below, true
\* above.
C15_CandidateIffAbove15 ==
    verdict # Null
      => /\ MagnitudeSq <= 225 => ~verdict[1].candidate
         /\ MagnitudeSq > 225 => verdict[1].candidate

\* C15 witness: a reading with three non-zero axes and magnitude exactly
\* 15 was classified as no candidate
C15_Witness ==
    /\ verdict # Null
    /\ MagnitudeSq = 225
    /\ verdict[1].reading.x < 0
    /\ verdict[1].reading.y > 0
    /\ verdict[1].reading.z > 0
    /\ ~verdict[1].candidate

\* C16: calculateSeverity is high exactly when the magnitude is above 25,
\* medium exactly when it is above 20 and at most 25, low otherwise; so 20
\* is low and 25 is medium (20 * 20 = 400, 25 * 25 = 625).
C16_SeverityCutPoints ==
    verdict # Null
      => /\ verdict[1].severity = "high" <=> MagnitudeSq > 625
         /\ verdict[1].severity = "medium"
              <=> (MagnitudeSq > 400 /\ MagnitudeSq <= 625)
         /\ verdict[1].severity = "low" <=> MagnitudeSq <= 400

\* C16 witness: a reading with three non-zero axes and magnitude exactly
\* 25 was graded medium
C16_Witness ==
    /\ verdict # Null
    /\ MagnitudeSq = 625
    /\ verdict[1].reading.x < 0
    /\ verdict[1].reading.y > 0
    /\ verdict[1].reading.z > 0
    /\ verdict[1].severity = "medium"

\* an axis of the sample under examination is NaN, null or undefined
Malformed ==
    \/ sample[1].x \in {NaN, Absent}
    \/ sample[1].y \in {NaN, Absent}
    \/ sample[1].z \in {NaN, Absent}

\* C17: a sample with a NaN, null or undefined axis is handled as a reading
\* of magnitude 0: it is no candidate and appends no event.
C17_MalformedSampleHasMagnitudeZero ==
    (verdict # Null /\ Malformed)
      => /\ ~verdict[1].candidate
         /\ verdict[1].events = <<>>

\* C18: after stopSession ends a session no interval timer started by
\* startSession is still scheduled.
C18_NoTimerAfterEnd ==
    [][(currentSession # Null /\ stopSession) => activeTimers' = {}]_vars

\* C19: with the motion permission granted and no location access (the
\* user denied it or the device has no geolocation), startSession on an
\* idle page with a route makes the session active, and no session on such
\* a device ever has an event.
C19_AccelerometerOnlyStarts ==
    [][/\ (/\ permissionDetails.accelerometer
           /\ ~geoGranted
           /\ startCoords /\ destinationCoords
           /\ sessionStatus = "idle"
           /\ startSession)
            => (sessionStatus' = "active" /\ currentSession' # Null)
       /\ ~geoGranted => Events' = <<>>]_vars

\* the index of the most recent pending event, or 0
LastPending(events) ==
    IF \E i \in 1..Len(events) : events[i].userConfirmed = "null"
    THEN CHOOSE i \in 1..Len(events) :
            /\ events[i].userConfirmed = "null"
            /\ \A j \in (i + 1)..Len(events) :
                 events[j].userConfirmed # "null"
    ELSE 0

\* C20: an utterance of "pothole" within 5 seconds of the detection of the
\* most recent pending event confirms that event, and a later utterance
\* changes no event.
C20_VoiceConfirmsWithinWindow ==
    [][(utterance /\ LastPending(Events) # 0)
         => IF DateNow - Events[LastPending(Events)].timestamp
                 <= VoiceWindowMs
            THEN /\ Len(Events') = Len(Events)
                 /\ Events'[LastPending(Events)].userConfirmed = "true"
            ELSE Events' = Events]_vars

\* C21: averageSpeed is 0 in the session while it is active, and in every
\* exported record it is totalDistance (km) over the duration in hours,
\* that is totalDistance / durationMinutes * 60, when endTime > startTime,
\* and 0 when the duration is 0.
C21_AverageSpeedSetAtEnd ==
    /\ currentSession # Null => currentSession[1].averageSpeed.num = 0
    /\ \A i \in 1..Len(exported) :
         IF exported[i].endTime > exported[i].startTime
         THEN /\ exported[i].averageSpeed.num
                   = exported[i].totalDistance * MsPerHour
              /\ exported[i].averageSpeed.den
                   = exported[i].endTime - exported[i].startTime
         ELSE /\ exported[i].averageSpeed.num = 0
              /\ exported[i].averageSpeed.den = 1

\* C21 witness: two records were exported, one of a session of a second
\* and a kilometre (3600 km/h), one of a session of no duration (0 km/h)
C21_Witness ==
    /\ Len(exported) = 2
    /\ \E i \in 1..2 :
         /\ exported[i].endTime = exported[i].startTime + MsPerSecond
         /\ exported[i].totalDistance = 1
         /\ exported[i].averageSpeed.num = MsPerHour
         /\ exported[i].averageSpeed.den = MsPerSecond
    /\ \E i \in 1..2 :
         /\ exported[i].endTime = exported[i].startTime
         /\ exported[i].averageSpeed.num = 0

\* C22: while the page stays active totalDistance never decreases, whatever
\* the step (motion, position, confirm, reject, or a startSession call).
C22_DistanceMonotoneWhileActive ==
    [][(sessionStatus = "active" /\ sessionStatus' = "active")
         => totalDistance' >= totalDistance]_vars

\* C23: every position delivered during a session sets lastLocation to that
\* position, and adds to totalDistance the distance (km) from the previous
\* position of the session, nothing for the first position of the session:
\* totalDistance is the sum of the distances between the consecutive
\* positions delivered since startSession.
C23_DistanceIsSumOverSessionFixes ==
    [][(currentSession # Null /\ positionUpdate)
         => /\ lastLocation' = currentLocation'
            /\ totalDistance'
                 = totalDistance
                   + (IF fixSinceStart
                      THEN calculateDistance(lastLocation[1].latitude,
                                             lastLocation[1].longitude,
                                             currentLocation'[1].latitude,
                                             currentLocation'[1].longitude)
                             \div MetresPerKm
                      ELSE 0)]_vars

\* C24: confirmPothole(id) called twice leaves what it leaves when called
\* once: from every reachable state and for every id, the session (each
\* event's confirmation and label, the other events) and the three
\* counters after the second call are those after the first.
C24_ConfirmIsIdempotent ==
    \A eventId \in 1..MaxIds :
        LET once == confirmPotholeOn(currentSession, Counters, eventId)
            twice == confirmPotholeOn(once.session, once.counters, eventId)
        IN  /\ twice.session = once.session
            /\ twice.counters = once.counters

\* C24 witness: the first of two events is confirmed, the second is
\* pending, and confirming the first again gives this very state
C24_Witness ==
    /\ currentSession # Null
    /\ Len(Events) = 2
    /\ Events[1].userConfirmed = "true"
    /\ Events[2].userConfirmed = "null"
    /\ confirmedPotholes = 1
    /\ falsePositives = 0
    /\ LET again == confirmPotholeOn(currentSession, Counters, Events[1].id)
       IN  /\ again.found
           /\ again.session = currentSession
           /\ again.counters = Counters

\* C25: a confirmPothole or markFalsePositive call made while there is no
\* session, or with an id that no event of the session has, changes
\* nothing: the session and its events, the counters and everything else
\* on the page are as before (the call returns, there is no throw in it).
\* Such a call is the step that records the two handlers in ignored: they
\* alone write that value, and they write it exactly in these two cases.
C25_UnknownTargetIsNoOp ==
    [][ignored' = "confirmPothole|markFalsePositive"
         => UNCHANGED <<page, manager, browser, now, nextId, exported>>]_vars

\* C25 witness: the latest call was a confirmPothole or markFalsePositive
\* that was ignored while the session had one event, still pending (the id
\* given was not that event's)
C25_Witness ==
    /\ ignored = "confirmPothole|markFalsePositive"
    /\ currentSession # Null
    /\ Len(Events) = 1
    /\ Events[1].userConfirmed = "null"
    /\ Events[1].label = "pothole_detected"
    /\ eventsCount = 1
    /\ confirmedPotholes = 0
    /\ falsePositives = 0

\* C26: one device motion event appends at most one event to the session,
\* whatever startSession and stopSession calls came before it: in every
\* reachable state, the session that the dispatch of one motion event to the
\* registered listeners leaves has at most one event more than before.
C26_OneEventPerMotionEvent ==
    \A acc \in MotionInputs :
        LET st == Dispatch([session |-> currentSession, nextId |-> nextId],
                           currentLocation, handleMotion(acc),
                           motionListeners)
        IN  st.session # Null
              => Len(st.session[1].events) <= Len(Events) + 1

\* C27: sessionStatus is "active" exactly when currentSession is non-null,
\* it is never "paused", and the page holds at most one session object.
C27_StatusMatchesSession ==
    /\ sessionStatus \in {"idle", "active"}
    /\ sessionStatus = "active" <=> currentSession # Null
    /\ Len(currentSession) <= 1

\* C27 witness: a session is active after an earlier one was ended and
\* exported, so the status went from idle to active to idle to active
C27_Witness ==
    /\ sessionStatus = "active"
    /\ currentSession # Null
    /\ Len(exported) = 1
    /\ currentSession[1].id # exported[1].id

\* the label that goes with a confirmation
LabelOf(userConfirmed) ==
    CASE userConfirmed = "null" -> "pothole_detected"
      [] userConfirmed = "true" -> "pothole_confirmed"
      [] userConfirmed = "false" -> "false_positive"

\* C28: every event, of the session and of the exported records, has the
\* label of its confirmation: pothole_detected with null, pothole_confirmed
\* with true, false_positive with false.
C28_LabelMirrorsConfirmation ==
    /\ \A i \in 1..Len(Events) :
         /\ Events[i].userConfirmed \in {"null", "true", "false"}
         /\ Events[i].label = LabelOf(Events[i].userConfirmed)
    /\ \A r \in 1..Len(exported) :
         \A i \in 1..Len(exported[r].events) :
           /\ exported[r].events[i].userConfirmed \in {"null", "true", "false"}
           /\ exported[r].events[i].label
                = LabelOf(exported[r].events[i].userConfirmed)

\* C28 witness: an exported record holds a rejected event and a confirmed
\* event, in that order
C28_Witness ==
    /\ Len(exported) = 1
    /\ Len(exported[1].events) = 2
    /\ exported[1].events[1].label = "false_positive"
    /\ exported[1].events[1].userConfirmed = "false"
    /\ exported[1].events[2].label = "pothole_confirmed"
    /\ exported[1].events[2].userConfirmed = "true"

\* C29: a confirmPothole or markFalsePositive step changes at most the
\* userConfirmed and label of one event: the events keep their number and
\* order, all other events and all other fields of that event are as
\* before, and so are the session's id, startTime, endTime, totalDistance
\* and averageSpeed, the page's totalDistance, sessionStartTime,
\* sessionStatus, currentLocation, lastLocation and currentSpeed, and the
\* sensors, timers and exported records.
C29_ResolveChangesOneEventOnly ==
    [][(currentSession # Null /\ (confirmPothole \/ markFalsePositive))
         => /\ Len(Events') = Len(Events)
            /\ \A i \in 1..Len(Events) :
                 SameButConfirmation(Events[i], Events'[i])
            /\ Cardinality({i \in 1..Len(Events) : Events'[i] # Events[i]})
                 <= 1
            /\ currentSession'
                 = <<[currentSession[1] EXCEPT !.events = Events']>>
            /\ UNCHANGED <<sessionStatus, permissionDetails,
                           currentAccelerometer, currentLocation,
                           currentSpeed, totalDistance, lastLocation,
                           sessionStartTime, sessionTimer, sessionDuration,
                           startCoords, destinationCoords, manager, browser,
                           now, nextId, exported>>]_vars

\* C29 witness: the second of two events is rejected and the first is
\* pending, in a session that has covered a kilometre
C29_Witness ==
    /\ Len(Events) = 2
    /\ Events[1].userConfirmed = "null"
    /\ Events[2].userConfirmed = "false"
    /\ Events[2].label = "false_positive"
    /\ totalDistance = 1
    /\ currentLocation # Null
    /\ sessionStatus = "active"

\* C30: a startSession call that is refused, because the motion permission,
\* the location permission or one of the two coordinates is missing, changes
\* nothing: an idle page stays idle with no session, the counters and
\* totalDistance keep their values, and no timer, listener or watch is
\* started.
C30_RefusedStartChangesNothing ==
    [][((\/ ~permissionDetails.accelerometer
         \/ ~permissionDetails.location
         \/ ~startCoords
         \/ ~destinationCoords) /\ startSession)
         => /\ UNCHANGED <<page, manager, browser, now, nextId, exported>>
            /\ sessionStatus = "idle"
                 => (sessionStatus' = "idle" /\ currentSession' = Null)]_vars

\* C30 witness: startSession has just been refused on an idle page that has
\* both permissions and a start location but no destination; no timer and
\* no motion listener exists, and the watch of enableLocation is the only one
C30_Witness ==
    /\ ignored = "startSession"
    /\ sessionStatus = "idle"
    /\ currentSession = Null
    /\ permissionDetails.accelerometer
    /\ permissionDetails.location
    /\ startCoords
    /\ ~destinationCoords
    /\ activeTimers = {}
    /\ motionListeners = 0
    /\ Cardinality(activeWatches) = 1

====
